---- MODULE Spec2Model ----
(***************************************************************************)
(* Model of the learning-chat handlers of hanzong05/aimddlwr.              *)
(*                                                                         *)
(* The hosted store is a set of tables; every store statement of the code  *)
(* is one atomic step.  A statement has a failure outcome in the model     *)
(* where the code branches on the statement's error result or on its       *)
(* missing data, and where one variant of a handler leaves out an error    *)
(* check that its sibling variants make; any other statement whose result  *)
(* the code discards is carried out.  Numbers with fractions are scaled:   *)
(* confidence is kept in hundredths (0.1 = 10, 1.0 = 100), quality_score   *)
(* in tenths (3.0 = 30), progress_percentage in whole percent.             *)
(***************************************************************************)
EXTENDS Integers, Sequences, FiniteSets, TLC

\* ------------------------------------------------------------------ bounds
MaxPatterns == 1
MaxFeedback == 2
MaxModels == 2
MaxGroups == 1
MaxJobs == 2
MaxChats == 2

\* --------------------------------------------------------------- inputs
Users == {"u1", "u2"}
\* request slots of the /ai/models handler
ModelReqs == {"m1", "m2"}
\* request slots of the train.js create-job handler
StartReqs == {"s1", "s2"}
\* users of the training endpoints
TrainUsers == {"u1"}
\* epochs a create-job body may carry
EpochInputs == {2}
\* <<rows, quality_score>> of one insert into training_data: a single row with
\* the default score 3.0, twenty rows with the 'advanced' difficulty score 4.5
RowBatches == {<<1, 30>>, <<20, 45>>}
\* confidence values a request body may carry (hundredths); 50 is the default
\* input_pattern of a create-pattern body
PatternInputs == {"hello", ""}
\* request slots of the chat handler
ChatReqs == {"c1", "c2"}
\* message of a chat body
Messages == {"", "Hello", "hell"}
ConfidenceInputs == {20, 50, 95, 120}
\* feedback bodies: feedback_type, feedback_score (0 = absent), corrected_response
FeedbackBodies ==
  { [feedback_type |-> "positive",   feedback_score |-> 4, corrected_response |-> ""],
    [feedback_type |-> "positive",   feedback_score |-> 3, corrected_response |-> ""],
    [feedback_type |-> "negative",   feedback_score |-> 0, corrected_response |-> ""],
    [feedback_type |-> "correction", feedback_score |-> 0, corrected_response |-> "fixed"],
    [feedback_type |-> "correction", feedback_score |-> 0, corrected_response |-> ""],
    [feedback_type |-> "other",      feedback_score |-> 5, corrected_response |-> ""],
    [feedback_type |-> "",           feedback_score |-> 0, corrected_response |-> ""] }

VARIABLES
  learning_patterns,   \* table: sequence of rows, the row id is the index
  pattern_feedback,    \* table: the number of rows; rows are only ever inserted and no
                       \* statement reads them, the row a request wrote is kept in fb
  fb,                  \* the feedback request being handled
  models,              \* table: sequence of rows, the row id is the index
  act,                 \* the /ai/models requests being handled, one per slot
  everActivated,       \* history: users for whom an activation has gone through
  training_data,       \* table: sequence of row groups, one group per insert statement
  training_jobs,       \* table: sequence of rows, the row id is the index
  start,               \* the train.js create-job requests being handled, one per slot
  runs,                \* the background run of each job, by job id
  chat,                \* the chat requests being handled, one per slot
  chatSeq,             \* number of chat requests received so far
  accepted,            \* history: <<request number, pattern id>> of every acceptance
  chatStore,           \* tables conversations and messages, as row counts
  training,            \* one processTraining run of train.js seen through its accuracy
                       \* figures: those persisted per epoch and the one of its model
  response,            \* per handler, the answer to the last request it received
  examples,            \* table training_data as api/data/training.js sees it: one row per example
  dataReq,             \* the last /data/training request and its answer
  fetched,             \* the last getPatterns request and the list it answered
  fallback             \* the last call of generateContextualFallback: message, history, answer

vars == <<learning_patterns, pattern_feedback, fb, models, act, everActivated,
          training_data, training_jobs, start, runs, chat, chatSeq, accepted, chatStore,
          training, response, examples, dataReq, fetched, fallback>>
chatVars == <<chat, chatSeq, accepted, chatStore>>
feedbackVars == <<learning_patterns, pattern_feedback, fb>>
modelVars == <<models, act, everActivated>>
trainVars == <<training_data, training_jobs, start, runs>>
sideVars == <<training, response, examples, dataReq, fetched, fallback>>

\* ------------------------------------------------------- SQL expressions
LEAST(a, b) == IF a <= b THEN a ELSE b
GREATEST(a, b) == IF a >= b THEN a ELSE b

\* supabase.raw('LEAST(1.0, confidence + 0.1)')
RawPositive_unclamped(confidence) == confidence + 10
RawPositive(confidence) == LEAST(100, confidence + 10)
\* supabase.raw('GREATEST(0.1, confidence - 0.15)')
RawNegative(confidence) == GREATEST(10, confidence - 15)
\* supabase.raw('LEAST(1.0, confidence + 0.05)')
RawCorrection(confidence) == LEAST(100, confidence + 5)

PatternIds == 1..Len(learning_patterns)

\* ----------------------------------------------------------- patterns API
\* POST /learning/patterns
createPattern(u, input_pattern, response_pattern, confidence, ok) ==
  /\ Len(learning_patterns) < MaxPatterns
  /\ fb.pc # "update"
  /\ IF input_pattern = "" \/ response_pattern = "" \/ ~ok
       THEN UNCHANGED learning_patterns          \* 400, or the insert error is thrown
       ELSE learning_patterns' = Append(learning_patterns,
              [user_id |-> u, input_pattern |-> input_pattern,
               response_pattern |-> response_pattern,
               confidence |-> confidence, use_count |-> 1])
  /\ UNCHANGED <<pattern_feedback, fb>>
  /\ UNCHANGED modelVars
  /\ UNCHANGED trainVars
  /\ UNCHANGED chatVars
  /\ UNCHANGED sideVars

\* ----------------------------------------------------------- feedback
\* rows of learning_patterns an update statement of the handler matches
FeedbackMatches(variant, u, pattern_id) ==
  { id \in PatternIds :
      /\ id = pattern_id
      /\ (variant = "part_001" \/ learning_patterns[id].user_id = u) }

\* api/learning/feedback.js handler and api/learning.js handleFeedback, up to
\* and including the insert into pattern_feedback
handleFeedback_insert(u, pattern_id, body, ok) ==
  /\ fb.pc # "update"
  /\ fb.seq < MaxFeedback
  /\ IF pattern_id = 0 \/ body.feedback_type = ""
       THEN /\ fb' = [seq |-> fb.seq + 1, pc |-> "done", variant |-> "feedback", user |-> u,
                      pattern_id |-> pattern_id, body |-> body, status |-> 400,
                      inserted |-> 0, attempted |-> FALSE]
            /\ UNCHANGED pattern_feedback
       ELSE IF ok
         THEN /\ pattern_feedback' = pattern_feedback + 1
              /\ fb' = [seq |-> fb.seq + 1, pc |-> "update", variant |-> "feedback", user |-> u,
                        pattern_id |-> pattern_id, body |-> body, status |-> 0,
                        inserted |-> pattern_feedback + 1, attempted |-> FALSE]
         ELSE /\ UNCHANGED pattern_feedback     \* if (feedbackError) throw feedbackError
              /\ fb' = [seq |-> fb.seq + 1, pc |-> "done", variant |-> "feedback", user |-> u,
                        pattern_id |-> pattern_id, body |-> body, status |-> 500,
                        inserted |-> 0, attempted |-> FALSE]
  /\ UNCHANGED learning_patterns
  /\ UNCHANGED modelVars
  /\ UNCHANGED trainVars
  /\ UNCHANGED chatVars
  /\ UNCHANGED sideVars

\* the update of learning_patterns that follows the insert
handleFeedback_update ==
  /\ fb.pc = "update"
  /\ fb.variant = "feedback"
  /\ LET b == fb.body
         m == FeedbackMatches("feedback", fb.user, fb.pattern_id)
     IN  IF b.feedback_type = "positive" /\ b.feedback_score >= 4
           THEN /\ learning_patterns' = [id \in PatternIds |->
                      IF id \in m
                        THEN [learning_patterns[id] EXCEPT !.confidence = RawPositive(@)]
                        ELSE learning_patterns[id]]
                /\ fb' = [fb EXCEPT !.pc = "done", !.status = 200, !.attempted = TRUE]
         ELSE IF b.feedback_type = "negative"
           THEN /\ learning_patterns' = [id \in PatternIds |->
                      IF id \in m
                        THEN [learning_patterns[id] EXCEPT !.confidence = RawNegative(@)]
                        ELSE learning_patterns[id]]
                /\ fb' = [fb EXCEPT !.pc = "done", !.status = 200, !.attempted = TRUE]
         ELSE IF b.feedback_type = "correction" /\ b.corrected_response # ""
           THEN /\ learning_patterns' = [id \in PatternIds |->
                      IF id \in m
                        THEN [learning_patterns[id] EXCEPT
                                !.response_pattern = b.corrected_response,
                                !.confidence = RawCorrection(@)]
                        ELSE learning_patterns[id]]
                /\ fb' = [fb EXCEPT !.pc = "done", !.status = 200, !.attempted = TRUE]
         ELSE /\ UNCHANGED learning_patterns
              /\ fb' = [fb EXCEPT !.pc = "done", !.status = 200]
  /\ UNCHANGED pattern_feedback
  /\ UNCHANGED modelVars
  /\ UNCHANGED trainVars
  /\ UNCHANGED chatVars
  /\ UNCHANGED sideVars

\* unnamed/part_001 handleFeedback: the insert, whose result is discarded
handleFeedback_part001_insert(u, pattern_id, body, ok) ==
  /\ fb.pc # "update"
  /\ fb.seq < MaxFeedback
  /\ IF ok
       THEN pattern_feedback' = pattern_feedback + 1
       ELSE UNCHANGED pattern_feedback
  /\ fb' = [seq |-> fb.seq + 1, pc |-> "update", variant |-> "part_001", user |-> u,
            pattern_id |-> pattern_id, body |-> body, status |-> 0,
            inserted |-> IF ok THEN pattern_feedback + 1 ELSE 0,
            attempted |-> FALSE]
  /\ UNCHANGED learning_patterns
  /\ UNCHANGED modelVars
  /\ UNCHANGED trainVars
  /\ UNCHANGED chatVars
  /\ UNCHANGED sideVars

\* unnamed/part_001 handleFeedback: the update, matched on id alone
handleFeedback_part001_update ==
  /\ fb.pc = "update"
  /\ fb.variant = "part_001"
  /\ LET b == fb.body
         m == FeedbackMatches("part_001", fb.user, fb.pattern_id)
     IN  IF b.feedback_type = "positive"
           THEN /\ learning_patterns' = [id \in PatternIds |->
                      IF id \in m
                        THEN [learning_patterns[id] EXCEPT !.confidence = RawPositive(@)]
                        ELSE learning_patterns[id]]
                /\ fb' = [fb EXCEPT !.pc = "done", !.status = 200, !.attempted = TRUE]
         ELSE IF b.feedback_type = "negative"
           THEN /\ learning_patterns' = [id \in PatternIds |->
                      IF id \in m
                        THEN [learning_patterns[id] EXCEPT !.confidence = RawNegative(@)]
                        ELSE learning_patterns[id]]
                /\ fb' = [fb EXCEPT !.pc = "done", !.status = 200, !.attempted = TRUE]
         ELSE /\ UNCHANGED learning_patterns
              /\ fb' = [fb EXCEPT !.pc = "done", !.status = 200]
  /\ UNCHANGED pattern_feedback
  /\ UNCHANGED modelVars
  /\ UNCHANGED trainVars
  /\ UNCHANGED chatVars
  /\ UNCHANGED sideVars


\* ----------------------------------------------------------- models
ModelIds == 1..Len(models)

IdleReq == [pc |-> "idle", user |-> "u1", modelId |-> 0, status |-> 0]

\* the insert into models a training run ends with (status 'trained',
\* is_active left at the column default)
InsertModel(u) ==
  Append(models, [user_id |-> u, status |-> "trained", is_active |-> FALSE])

ModelTrained(u) ==
  /\ Len(models) < MaxModels
  /\ models' = InsertModel(u)
  /\ UNCHANGED <<act, everActivated>>
  /\ UNCHANGED feedbackVars
  /\ UNCHANGED trainVars
  /\ UNCHANGED chatVars
  /\ UNCHANGED sideVars

\* .update({ is_active: false }).eq('user_id', userId)
DeactivateAll(u) ==
  [id \in ModelIds |->
     IF models[id].user_id = u THEN [models[id] EXCEPT !.is_active = FALSE]
                               ELSE models[id]]

\* activateModel up to the end of its checks; modelId 0 is an absent field
activateModel_verify(r, u, modelId, ok) ==
  /\ act[r].pc = "idle"
  /\ IF modelId = 0
       THEN act' = [act EXCEPT ![r] = [IdleReq EXCEPT !.status = 400]]
       ELSE IF ~ok \/ modelId \notin ModelIds \/ models[modelId].user_id # u
         THEN act' = [act EXCEPT ![r] = [IdleReq EXCEPT !.status = 404]]
       ELSE IF models[modelId].status # "trained"
         THEN act' = [act EXCEPT ![r] = [IdleReq EXCEPT !.status = 400]]
       ELSE act' = [act EXCEPT ![r] =
                      [pc |-> "deactivate", user |-> u, modelId |-> modelId, status |-> 0]]
  /\ UNCHANGED <<models, everActivated>>
  /\ UNCHANGED feedbackVars
  /\ UNCHANGED trainVars
  /\ UNCHANGED chatVars
  /\ UNCHANGED sideVars

\* activateModel: deactivate all models of the user
activateModel_deactivate(r) ==
  /\ act[r].pc = "deactivate"
  /\ models' = DeactivateAll(act[r].user)
  /\ act' = [act EXCEPT ![r].pc = "activate"]
  /\ UNCHANGED everActivated
  /\ UNCHANGED feedbackVars
  /\ UNCHANGED trainVars
  /\ UNCHANGED chatVars
  /\ UNCHANGED sideVars

\* activateModel: activate the selected model, or throw on updateError
activateModel_activate(r, ok) ==
  /\ act[r].pc = "activate"
  /\ IF ok
       THEN /\ models' = [models EXCEPT ![act[r].modelId] =
                            [@ EXCEPT !.is_active = TRUE, !.status = "deployed"]]
            /\ everActivated' = everActivated \cup {act[r].user}
            /\ act' = [act EXCEPT ![r] = [IdleReq EXCEPT !.status = 200]]
       ELSE /\ UNCHANGED <<models, everActivated>>
            /\ act' = [act EXCEPT ![r] = [IdleReq EXCEPT !.status = 500]]
  /\ UNCHANGED feedbackVars
  /\ UNCHANGED trainVars
  /\ UNCHANGED chatVars
  /\ UNCHANGED sideVars

\* deleteModel up to the end of its checks
deleteModel_check(r, u, modelId, ok) ==
  /\ act[r].pc = "idle"
  /\ IF modelId = 0
       THEN act' = [act EXCEPT ![r] = [IdleReq EXCEPT !.status = 400]]
       ELSE IF ~ok \/ modelId \notin ModelIds \/ models[modelId].user_id # u
         THEN act' = [act EXCEPT ![r] = [IdleReq EXCEPT !.status = 500]]
       ELSE IF models[modelId].is_active
         THEN act' = [act EXCEPT ![r] = [IdleReq EXCEPT !.status = 400]]
       ELSE act' = [act EXCEPT ![r] =
                      [pc |-> "archive", user |-> u, modelId |-> modelId, status |-> 0]]
  /\ UNCHANGED <<models, everActivated>>
  /\ UNCHANGED feedbackVars
  /\ UNCHANGED trainVars
  /\ UNCHANGED chatVars
  /\ UNCHANGED sideVars

\* deleteModel: archive the model instead of deleting it
deleteModel_archive(r, ok) ==
  /\ act[r].pc = "archive"
  /\ IF ok
       THEN /\ models' = [models EXCEPT ![act[r].modelId].status = "archived"]
            /\ act' = [act EXCEPT ![r] = [IdleReq EXCEPT !.status = 200]]
       ELSE /\ UNCHANGED models
            /\ act' = [act EXCEPT ![r] = [IdleReq EXCEPT !.status = 500]]
  /\ UNCHANGED everActivated
  /\ UNCHANGED feedbackVars
  /\ UNCHANGED trainVars
  /\ UNCHANGED chatVars
  /\ UNCHANGED sideVars

\* no /ai/models request is between two of its store statements
ModelsQuiescent == \A r \in ModelReqs : act[r].pc = "idle"
\* every request other than r is at rest
OthersIdle(r) == \A q \in ModelReqs \ {r} : act[q].pc = "idle"

ActiveModels(u) == { id \in ModelIds : models[id].user_id = u /\ models[id].is_active }


\* ----------------------------------------------------------- training data
\* A group is the rows one insert statement wrote: they share user_id and
\* used_in_training, and quality_score is their lowest score.  Every statement
\* modelled here selects or updates the rows of a group together.
GroupIds == 1..Len(training_data)

RECURSIVE RowCount(_)
RowCount(S) ==
  IF S = {} THEN 0
  ELSE LET g == CHOOSE x \in S : TRUE
       IN  training_data[g].rows + RowCount(S \ {g})

\* .eq('user_id', u).eq('used_in_training', false).gte('quality_score', q)
SelectUnused(u, q) ==
  { g \in GroupIds : /\ training_data[g].user_id = u
                      /\ ~training_data[g].used_in_training
                      /\ training_data[g].quality_score >= q }

\* .eq('user_id', u).gte('quality_score', q)
SelectQuality(u, q) ==
  { g \in GroupIds : /\ training_data[g].user_id = u
                      /\ training_data[g].quality_score >= q }

InsertRows(u, rows, quality_score) ==
  Append(training_data, [user_id |-> u, quality_score |-> quality_score,
                         used_in_training |-> FALSE, rows |-> rows])

\* addTrainingData (one row) and generateRandomQuestions (one insert of many rows)
storeTrainingData(u, batch) ==
  /\ Len(training_data) < MaxGroups
  /\ training_data' = InsertRows(u, batch[1], batch[2])
  /\ UNCHANGED <<training_jobs, start, runs>>
  /\ UNCHANGED feedbackVars
  /\ UNCHANGED chatVars
  /\ UNCHANGED sideVars
  /\ UNCHANGED modelVars

\* generate-questions generateRandomQuestions: one insert of count rows, all
\* of the quality the requested difficulty maps to (3.5 when it is unknown)
QuestionCounts == {1, 5}
MaxQuestionGroups == 2

generateRandomQuestions(u, count, ok) ==
  /\ Len(training_data) < MaxQuestionGroups
  /\ IF ok
       THEN training_data' = InsertRows(u, count, 35)
       ELSE UNCHANGED training_data
  /\ UNCHANGED <<training_jobs, start, runs>>
  /\ UNCHANGED feedbackVars
  /\ UNCHANGED chatVars
  /\ UNCHANGED sideVars
  /\ UNCHANGED modelVars

\* ----------------------------------------------------------- training jobs
JobIds == 1..Len(training_jobs)

program_MinExamples == 5
program_MinExamplesAdvanced == 10
program_MinExamplesAdvance == 20
\* rows createSampleTrainingData inserts: train.js, training.js, advanced-train.js
program_SampleRows == 7
program_SampleRowsTraining == 2
program_SampleRowsAdvanced == 10

\* a job row as inserted; columns the insert leaves out read as 0 or ""
NewJob(u, status) ==
  [user_id |-> u, status |-> status, current_epoch |-> 0,
   progress_percentage |-> 0, model_id |-> 0, error_message |-> ""]

\* the arguments setImmediate hands to the background function, and its locals
NewRun(variant, data, epochs) ==
  [pc |-> "queued", variant |-> variant, data |-> data, epochs |-> epochs,
   epoch |-> 0, model |-> 0, thrown |-> FALSE]

\* .eq('user_id', u).in('status', ['pending', 'running'])
ActiveJobs(u) ==
  { j \in JobIds : /\ training_jobs[j].user_id = u
                    /\ training_jobs[j].status \in {"pending", "running"} }

\* the response code is not kept: a finished request leaves its slot at rest
IdleStart == [pc |-> "idle", user |-> "u1", epochs |-> 0, data |-> {}]

\* train.js startTraining up to the end of the training-data check.  With no
\* qualifying row the handler inserts the sample rows, re-fetches them and
\* assigns the result to the const binding trainingData, which throws.
startTraining_select(s, u, epochs, ok) ==
  /\ start[s].pc = "idle"
  /\ LET data == SelectUnused(u, 30) IN
     IF ~ok
       THEN /\ start' = [start EXCEPT ![s] = IdleStart]
            /\ UNCHANGED training_data
     ELSE IF RowCount(data) >= program_MinExamples
       THEN /\ start' = [start EXCEPT ![s] =
                  [pc |-> "check", user |-> u, epochs |-> epochs, data |-> data]]
            /\ UNCHANGED training_data
     ELSE IF RowCount(data) = 0 /\ Len(training_data) < MaxGroups
       THEN /\ training_data' = InsertRows(u, program_SampleRows, 40)
            /\ start' = [start EXCEPT ![s] = IdleStart]
     ELSE /\ RowCount(data) # 0
          /\ start' = [start EXCEPT ![s] = IdleStart]
          /\ UNCHANGED training_data
  /\ UNCHANGED <<training_jobs, runs>>
  /\ UNCHANGED feedbackVars
  /\ UNCHANGED chatVars
  /\ UNCHANGED sideVars
  /\ UNCHANGED modelVars

\* train.js startTraining: the check for a pending or running job;
\* .single() yields a row only when exactly one row matches
startTraining_check(s) ==
  /\ start[s].pc = "check"
  /\ IF Cardinality(ActiveJobs(start[s].user)) = 1
       THEN start' = [start EXCEPT ![s] = IdleStart]
       ELSE start' = [start EXCEPT ![s].pc = "insert"]
  /\ UNCHANGED <<training_data, training_jobs, runs>>
  /\ UNCHANGED feedbackVars
  /\ UNCHANGED chatVars
  /\ UNCHANGED sideVars
  /\ UNCHANGED modelVars

\* train.js startTraining: insert the job and schedule processTraining
startTraining_insert(s, ok) ==
  /\ start[s].pc = "insert"
  /\ Len(training_jobs) < MaxJobs
  /\ IF ok
       THEN /\ training_jobs' = Append(training_jobs,
                                       NewJob(start[s].user, "pending"))
            /\ runs' = Append(runs, NewRun("train", start[s].data, start[s].epochs))
            /\ start' = [start EXCEPT ![s] = IdleStart]
       ELSE /\ UNCHANGED <<training_jobs, runs>>
            /\ start' = [start EXCEPT ![s] = IdleStart]
  /\ UNCHANGED training_data
  /\ UNCHANGED feedbackVars
  /\ UNCHANGED chatVars
  /\ UNCHANGED sideVars
  /\ UNCHANGED modelVars

\* training.js startTraining: no check for a job in progress
training_startTraining(u, epochs, ok) ==
  /\ Len(training_jobs) < MaxJobs
  /\ LET data == SelectUnused(u, 30) IN
     IF RowCount(data) >= program_MinExamples
       THEN /\ UNCHANGED training_data
            /\ IF ok
                 THEN /\ training_jobs' = Append(training_jobs, NewJob(u, "pending"))
                      /\ runs' = Append(runs, NewRun("training", data, epochs))
                 ELSE UNCHANGED <<training_jobs, runs>>
     ELSE IF RowCount(data) = 0 /\ Len(training_data) < MaxGroups
       THEN /\ training_data' = InsertRows(u, program_SampleRowsTraining, 42)
            /\ UNCHANGED <<training_jobs, runs>>
     ELSE /\ RowCount(data) # 0
          /\ UNCHANGED <<training_data, training_jobs, runs>>
  /\ UNCHANGED start
  /\ UNCHANGED feedbackVars
  /\ UNCHANGED chatVars
  /\ UNCHANGED sideVars
  /\ UNCHANGED modelVars

\* advance-train.js startAdvancedTraining: quality 4.0, twenty rows, the job
\* is inserted with status 'preparing'
advance_startAdvancedTraining(u, epochs, ok) ==
  /\ Len(training_jobs) < MaxJobs
  /\ LET data == SelectQuality(u, 40) IN
     IF RowCount(data) >= program_MinExamplesAdvance /\ ok
       THEN /\ training_jobs' = Append(training_jobs, NewJob(u, "preparing"))
            /\ runs' = Append(runs, NewRun("advance", data, epochs))
       ELSE UNCHANGED <<training_jobs, runs>>
  /\ UNCHANGED <<training_data, start>>
  /\ UNCHANGED feedbackVars
  /\ UNCHANGED chatVars
  /\ UNCHANGED sideVars
  /\ UNCHANGED modelVars

\* advanced-train.js startAdvancedTraining; with no qualifying row it inserts
\* ten sample rows and the assignment to the const binding throws
advanced_startAdvancedTraining(u, epochs, ok) ==
  /\ Len(training_jobs) < MaxJobs
  /\ LET data == SelectUnused(u, 30) IN
     IF RowCount(data) >= program_MinExamplesAdvanced
       THEN /\ UNCHANGED training_data
            /\ IF ok
                 THEN /\ training_jobs' = Append(training_jobs, NewJob(u, "pending"))
                      /\ runs' = Append(runs, NewRun("advanced", data, epochs))
                 ELSE UNCHANGED <<training_jobs, runs>>
     ELSE IF RowCount(data) = 0 /\ Len(training_data) < MaxGroups
       THEN /\ training_data' = InsertRows(u, program_SampleRowsAdvanced, 44)
            /\ UNCHANGED <<training_jobs, runs>>
     ELSE /\ RowCount(data) # 0
          /\ UNCHANGED <<training_data, training_jobs, runs>>
  /\ UNCHANGED start
  /\ UNCHANGED feedbackVars
  /\ UNCHANGED chatVars
  /\ UNCHANGED sideVars
  /\ UNCHANGED modelVars

\* the second startTraining of part_007: rows of quality 3.0 and more, used
\* or not, no check for a job in progress; with no row it inserts two sample
\* rows, re-fetches fewer than five and answers 400
part007_startTraining(u, epochs, ok) ==
  /\ Len(training_jobs) < MaxJobs
  /\ LET data == SelectQuality(u, 30) IN
     IF RowCount(data) >= program_MinExamples
       THEN /\ UNCHANGED training_data
            /\ IF ok
                 THEN /\ training_jobs' = Append(training_jobs, NewJob(u, "pending"))
                      /\ runs' = Append(runs, NewRun("training", data, epochs))
                 ELSE UNCHANGED <<training_jobs, runs>>
     ELSE IF RowCount(data) = 0 /\ Len(training_data) < MaxQuestionGroups
       THEN /\ training_data' = InsertRows(u, program_SampleRowsTraining, 42)
            /\ UNCHANGED <<training_jobs, runs>>
     ELSE /\ RowCount(data) # 0
          /\ UNCHANGED <<training_data, training_jobs, runs>>
  /\ UNCHANGED start
  /\ UNCHANGED feedbackVars
  /\ UNCHANGED chatVars
  /\ UNCHANGED sideVars
  /\ UNCHANGED modelVars

\* the second startAdvancedTraining of part_007: rows of quality 2.0 and more,
\* used or not, five of them are enough; with no row it inserts ten sample rows
\* and goes on with them (the binding is a let); a failed job insert is
\* answered as a success with a mock job and nothing is stored or scheduled
part007_startAdvancedTraining(u, epochs, ok) ==
  /\ Len(training_jobs) < MaxJobs
  /\ LET data == SelectQuality(u, 20) IN
     IF RowCount(data) >= program_MinExamples
       THEN /\ UNCHANGED training_data
            /\ IF ok
                 THEN /\ training_jobs' = Append(training_jobs, NewJob(u, "pending"))
                      /\ runs' = Append(runs, NewRun("advanced", data, epochs))
                 ELSE UNCHANGED <<training_jobs, runs>>
     ELSE IF RowCount(data) = 0 /\ Len(training_data) < MaxQuestionGroups
       THEN /\ training_data' = InsertRows(u, program_SampleRowsAdvanced, 40)
            /\ IF ok
                 THEN /\ training_jobs' = Append(training_jobs, NewJob(u, "pending"))
                      /\ runs' = Append(runs,
                            NewRun("advanced", {Len(training_data) + 1}, epochs))
                 ELSE UNCHANGED <<training_jobs, runs>>
     ELSE /\ RowCount(data) # 0
          /\ UNCHANGED <<training_data, training_jobs, runs>>
  /\ UNCHANGED start
  /\ UNCHANGED feedbackVars
  /\ UNCHANGED chatVars
  /\ UNCHANGED sideVars
  /\ UNCHANGED modelVars

\* auto-learn triggerAutoTraining: insert a pending job and schedule
\* processAutoTraining, whose body only logs
triggerAutoTraining(u, ok) ==
  /\ Len(training_jobs) < MaxJobs
  /\ IF ok
       THEN /\ training_jobs' = Append(training_jobs, NewJob(u, "pending"))
            /\ runs' = Append(runs, NewRun("auto", {}, 3))
       ELSE UNCHANGED <<training_jobs, runs>>
  /\ UNCHANGED <<training_data, start>>
  /\ UNCHANGED feedbackVars
  /\ UNCHANGED chatVars
  /\ UNCHANGED sideVars
  /\ UNCHANGED modelVars
\* ----------------------------------------------------------- background runs
\* (epoch / totalEpochs) * 100, in whole percent
EpochProgress_remaining(epoch, totalEpochs) == ((totalEpochs - epoch) * 100) \div totalEpochs
EpochProgress(epoch, totalEpochs) == (epoch * 100) \div totalEpochs

\* 20 + (epoch / epochs) * 60, in whole percent
LoopProgress(epoch, epochs) == 20 + ((epoch * 60) \div epochs)

\* the update in the catch block
CatchUpdate_noMessage(job, message) == [job EXCEPT !.status = "failed"]
CatchUpdate(job, message) == [job EXCEPT !.status = "failed", !.error_message = message]

SimpleRun(j) == runs[j].variant \in {"train", "training", "advanced"}

\* processTraining / processAdvancedTraining: the first update of the job
processTraining_running(j) ==
  /\ runs[j].pc = "queued"
  /\ runs[j].variant # "auto"
  /\ training_jobs' = [training_jobs EXCEPT ![j].status = "running"]
  /\ runs' = [runs EXCEPT ![j].pc = IF SimpleRun(j) THEN "loop" ELSE "preprocess"]
  /\ UNCHANGED <<training_data, start, models>>

\* one pass of the epoch loop of train.js, training.js and advanced-train.js
processTraining_epoch(j) ==
  /\ runs[j].pc = "loop"
  /\ SimpleRun(j)
  /\ runs[j].epoch + 1 <= runs[j].epochs
  /\ LET epoch == runs[j].epoch + 1 IN
       /\ runs' = [runs EXCEPT ![j].epoch = epoch]
       /\ training_jobs' = [training_jobs EXCEPT ![j] =
             [@ EXCEPT !.current_epoch = epoch,
                       !.progress_percentage = EpochProgress(epoch, runs[j].epochs)]]
  /\ UNCHANGED <<training_data, start, models>>

\* the insert into models after the loop.  train.js and advanced-train.js
\* throw modelError; training.js reads model.id of the null result, which
\* throws as well.  Either way the catch block runs next in the same function.
processTraining_insertModel(j, ok) ==
  /\ runs[j].pc = "loop"
  /\ SimpleRun(j)
  /\ ~(runs[j].epoch + 1 <= runs[j].epochs)
  /\ IF ok
       THEN /\ models' = InsertModel(training_jobs[j].user_id)
            /\ runs' = [runs EXCEPT ![j].pc = "complete", ![j].model = Len(models) + 1]
            /\ UNCHANGED training_jobs
       ELSE /\ training_jobs' = [training_jobs EXCEPT ![j] =
                  CatchUpdate(@, IF runs[j].variant = "training" THEN "TypeError"
                                                                 ELSE "modelError")]
            /\ runs' = [runs EXCEPT ![j].pc = "done", ![j].thrown = TRUE]
            /\ UNCHANGED models
  /\ UNCHANGED <<training_data, start>>

\* the update that completes the job
processTraining_complete(j) ==
  /\ runs[j].pc = "complete"
  /\ training_jobs' = [training_jobs EXCEPT ![j] =
        [@ EXCEPT !.status = "completed", !.model_id = runs[j].model,
                  !.progress_percentage = 100]]
  /\ runs' = [runs EXCEPT ![j].pc = IF runs[j].variant = "train" THEN "mark" ELSE "done"]
  /\ UNCHANGED <<training_data, start, models>>

\* train.js only: mark the rows the run was handed as used
processTraining_mark(j) ==
  /\ runs[j].pc = "mark"
  /\ training_data' = [g \in GroupIds |->
        IF g \in runs[j].data THEN [training_data[g] EXCEPT !.used_in_training = TRUE]
                              ELSE training_data[g]]
  /\ runs' = [runs EXCEPT ![j].pc = "done"]
  /\ UNCHANGED <<training_jobs, start, models>>

\* advance-train.js: the progress updates of phases 1, 2 and 4
processAdvancedTraining_phase(j) ==
  /\ runs[j].variant = "advance"
  /\ \/ /\ runs[j].pc = "preprocess"
        /\ training_jobs' = [training_jobs EXCEPT ![j].progress_percentage = 10]
        /\ runs' = [runs EXCEPT ![j].pc = "initialize"]
     \/ /\ runs[j].pc = "initialize"
        /\ training_jobs' = [training_jobs EXCEPT ![j].progress_percentage = 20]
        /\ runs' = [runs EXCEPT ![j].pc = "loop"]
     \/ /\ runs[j].pc = "evaluate"
        /\ training_jobs' = [training_jobs EXCEPT ![j].progress_percentage = 90]
        /\ runs' = [runs EXCEPT ![j].pc = "deploy"]
  /\ UNCHANGED <<training_data, start, models>>

\* advance-train.js runTrainingLoop: one pass; the validation accuracy is
\* random, so after epoch 3 the early stop may or may not be taken
runTrainingLoop_epoch(j, stop) ==
  /\ runs[j].variant = "advance"
  /\ runs[j].pc = "loop"
  /\ runs[j].epoch + 1 <= runs[j].epochs
  /\ LET epoch == runs[j].epoch + 1 IN
       /\ runs' = [runs EXCEPT ![j].epoch = epoch,
                               ![j].pc = IF epoch > 3 /\ stop THEN "evaluate" ELSE "loop"]
       /\ training_jobs' = [training_jobs EXCEPT ![j] =
             [@ EXCEPT !.current_epoch = epoch,
                       !.progress_percentage = LoopProgress(epoch, runs[j].epochs)]]
  /\ UNCHANGED <<training_data, start, models>>

\* advance-train.js runTrainingLoop: the loop condition fails
runTrainingLoop_exit(j) ==
  /\ runs[j].variant = "advance"
  /\ runs[j].pc = "loop"
  /\ ~(runs[j].epoch + 1 <= runs[j].epochs)
  /\ runs' = [runs EXCEPT ![j].pc = "evaluate"]
  /\ UNCHANGED <<training_data, training_jobs, start, models>>

\* advance-train.js deployModel: insert the model or throw into the catch block
deployModel(j, ok) ==
  /\ runs[j].variant = "advance"
  /\ runs[j].pc = "deploy"
  /\ IF ok
       THEN /\ models' = InsertModel(training_jobs[j].user_id)
            /\ runs' = [runs EXCEPT ![j].pc = "complete", ![j].model = Len(models) + 1]
            /\ UNCHANGED training_jobs
       ELSE /\ training_jobs' = [training_jobs EXCEPT ![j] = CatchUpdate(@, "error")]
            /\ runs' = [runs EXCEPT ![j].pc = "done", ![j].thrown = TRUE]
            /\ UNCHANGED models
  /\ UNCHANGED <<training_data, start>>

\* auto-learn processAutoTraining: logs and returns
processAutoTraining(j) ==
  /\ runs[j].variant = "auto"
  /\ runs[j].pc = "queued"
  /\ runs' = [runs EXCEPT ![j].pc = "done"]
  /\ UNCHANGED <<training_data, training_jobs, start, models>>

\* a step of the background run of job j
RunStep(j) ==
  /\ j \in JobIds
  /\ \/ processTraining_running(j)
     \/ processTraining_epoch(j)
     \/ \E ok \in BOOLEAN : processTraining_insertModel(j, ok)
     \/ processTraining_complete(j)
     \/ processTraining_mark(j)
     \/ processAdvancedTraining_phase(j)
     \/ \E stop \in BOOLEAN : runTrainingLoop_epoch(j, stop)
     \/ runTrainingLoop_exit(j)
     \/ \E ok \in BOOLEAN : deployModel(j, ok)
     \/ processAutoTraining(j)
  /\ UNCHANGED <<act, everActivated>>
  /\ UNCHANGED feedbackVars
  /\ UNCHANGED chatVars
  /\ UNCHANGED sideVars

\* ----------------------------------------------------------- chat
\* String.prototype.toLowerCase on the strings of the model
Lower(str) == IF str = "Hello" THEN "hello" ELSE str

\* .ilike('input_pattern', `%${message.toLowerCase()}%`): the pattern's input
\* contains the message, letter case ignored
ILike(input_pattern, message) ==
  <<Lower(input_pattern), Lower(message)>> \in
     { <<"hello", "hello">>, <<"hello", "hell">>, <<"hell", "hell">> }

\* rows the pattern query of generateAIResponse matches
PatternMatches(u, message) ==
  { id \in PatternIds : /\ learning_patterns[id].user_id = u
                         /\ ILike(learning_patterns[id].input_pattern, message) }

\* .order('confidence', { ascending: false }).limit(1): a row no other row beats
TopPattern(u, message) ==
  { id \in PatternMatches(u, message) :
      \A o \in PatternMatches(u, message) :
         learning_patterns[o].confidence <= learning_patterns[id].confidence }

\* confidence of generateContextualFallback: 'greeting' 0.7, default 0.4
FallbackConfidence(message) == IF Lower(message) = "hello" THEN 70 ELSE 40

\* Math.min(5, confidence * 5), in tenths
QualityOf(confidence) == LEAST(50, (confidence * 5) \div 10)

IdleChat ==
  [pc |-> "idle", seq |-> 0, user |-> "u1", message |-> "", pattern |-> 0, use_count |-> 0,
   external |-> "", source |-> "", confidence |-> 0, learned |-> 0, status |-> 0]

\* chat handler up to the conversation: 400 on an empty message, else the
\* named conversation is read or a new one is inserted
chat_begin(c, u, message, existing, ok) ==
  /\ chat[c].pc \in {"idle", "done"}
  /\ chatSeq < MaxChats
  /\ chatSeq' = chatSeq + 1
  /\ LET req == [IdleChat EXCEPT !.seq = chatSeq + 1, !.user = u, !.message = message] IN
     IF message = ""
       THEN /\ chat' = [chat EXCEPT ![c] = [req EXCEPT !.pc = "done", !.status = 400]]
            /\ UNCHANGED chatStore
     ELSE IF existing /\ chatStore.conversations > 0
       THEN /\ chat' = [chat EXCEPT ![c] = [req EXCEPT !.pc = "userMessage"]]
            /\ UNCHANGED chatStore
     ELSE IF ok
       THEN /\ chat' = [chat EXCEPT ![c] = [req EXCEPT !.pc = "userMessage"]]
            /\ chatStore' = [chatStore EXCEPT !.conversations = @ + 1]
     ELSE /\ chat' = [chat EXCEPT ![c] = [req EXCEPT !.pc = "done", !.status = 500]]
          /\ UNCHANGED chatStore
  /\ UNCHANGED <<accepted, learning_patterns, training_data>>

\* chat handler: save the user message, or throw userMsgError
chat_userMessage(c, ok) ==
  /\ chat[c].pc = "userMessage"
  /\ IF ok
       THEN /\ chatStore' = [chatStore EXCEPT !.messages = @ + 1]
            /\ chat' = [chat EXCEPT ![c].pc = "generate"]
       ELSE /\ UNCHANGED chatStore
            /\ chat' = [chat EXCEPT ![c].pc = "done", ![c].status = 500]
  /\ UNCHANGED <<chatSeq, accepted, learning_patterns, training_data>>

\* generateAIResponse: the pattern query; a returned row is used whatever
\* its confidence is
generateAIResponse_select(c) ==
  /\ chat[c].pc = "generate"
  /\ IF PatternMatches(chat[c].user, chat[c].message) # {}
       THEN \E id \in TopPattern(chat[c].user, chat[c].message) :
              chat' = [chat EXCEPT ![c].pc = "use", ![c].pattern = id,
                                   ![c].use_count = learning_patterns[id].use_count,
                                   ![c].confidence = learning_patterns[id].confidence]
       ELSE chat' = [chat EXCEPT ![c].pc = "external"]
  /\ UNCHANGED <<chatSeq, accepted, chatStore, learning_patterns, training_data>>

\* the use_count the accepting request writes: the count it read, plus one
UsedCount(row, read) == read + 1

\* generateAIResponse: write the use count and answer from the pattern
generateAIResponse_use(c) ==
  /\ chat[c].pc = "use"
  /\ learning_patterns' = [learning_patterns EXCEPT ![chat[c].pattern].use_count =
                              UsedCount(learning_patterns[chat[c].pattern], chat[c].use_count)]
  /\ accepted' = accepted \cup {<<chat[c].seq, chat[c].pattern>>}
  /\ chat' = [chat EXCEPT ![c].pc = "aiMessage", ![c].source = "learned_pattern"]
  /\ UNCHANGED <<chatSeq, chatStore, training_data>>

\* what the failed external call leaves to the later steps
ExternalFailed_asAnswer(req) ==
  [req EXCEPT !.pc = "aiMessage", !.source = "external_ai", !.confidence = 80]
ExternalFailed(req) ==
  [req EXCEPT !.pc = "aiMessage", !.source = "fallback",
              !.confidence = FallbackConfidence(req.message)]

\* generateAIResponse: the external text-generation call.  "nokey": no API
\* key is configured; "ok": the answer is stored as a pattern; "error": an
\* error status; "thrown": fetch or the parsing of its body throws
generateAIResponse_external(c, outcome) ==
  /\ chat[c].pc = "external"
  /\ IF outcome = "ok"
       THEN /\ learning_patterns' = Append(learning_patterns,
                  [user_id |-> chat[c].user, input_pattern |-> Lower(chat[c].message),
                   response_pattern |-> "ai", confidence |-> 80, use_count |-> 1])
            /\ chat' = [chat EXCEPT ![c].pc = "aiMessage", ![c].external = outcome,
                                    ![c].source = "external_ai", ![c].confidence = 80,
                                    ![c].learned = Len(learning_patterns) + 1]
       ELSE /\ UNCHANGED learning_patterns
            /\ chat' = [chat EXCEPT ![c] = ExternalFailed([chat[c] EXCEPT !.external = outcome])]
  /\ UNCHANGED <<chatSeq, accepted, chatStore, training_data>>

\* chat handler: save the assistant message, or throw aiMsgError
chat_aiMessage(c, ok) ==
  /\ chat[c].pc = "aiMessage"
  /\ IF ok
       THEN /\ chatStore' = [chatStore EXCEPT !.messages = @ + 1]
            /\ chat' = [chat EXCEPT ![c].pc = "respond"]
       ELSE /\ UNCHANGED chatStore
            /\ chat' = [chat EXCEPT ![c].pc = "done", ![c].status = 500]
  /\ UNCHANGED <<chatSeq, accepted, learning_patterns, training_data>>

\* chat handler: keep a confident answer as training data, then answer 200
chat_respond(c) ==
  /\ chat[c].pc = "respond"
  /\ IF chat[c].confidence > 60
       THEN training_data' = InsertRows(chat[c].user, 1, QualityOf(chat[c].confidence))
       ELSE UNCHANGED training_data
  /\ chat' = [chat EXCEPT ![c].pc = "done", ![c].status = 200]
  /\ UNCHANGED <<chatSeq, accepted, chatStore, learning_patterns>>

\* a step of the chat request in slot c; it leaves the other tables alone
ChatStep(c) ==
  /\ \/ \E u \in TrainUsers, m \in Messages, existing \in BOOLEAN, ok \in BOOLEAN :
           chat_begin(c, u, m, existing, ok)
     \/ \E ok \in BOOLEAN : chat_userMessage(c, ok)
     \/ generateAIResponse_select(c)
     \/ generateAIResponse_use(c)
     \/ \E outcome \in {"nokey", "ok", "error", "thrown"} :
           generateAIResponse_external(c, outcome)
     \/ \E ok \in BOOLEAN : chat_aiMessage(c, ok)
     \/ chat_respond(c)
  /\ UNCHANGED <<pattern_feedback, fb, training_jobs, start, runs>>
  /\ UNCHANGED modelVars
  /\ UNCHANGED sideVars

\* ------------------------------------------------------------------ init
\* ------------------------------------------- train.js: accuracy of a run
\* train.js holds two processTraining functions.  Accuracies are in
\* hundredths.  Math.random() * 0.1 lies in [0, 0.1), (Math.random() - 0.5) *
\* 0.05 in [-0.025, 0.025).
Versions == {"first", "second"}
RandomTenth == {0, 9}
RandomNoise == {0 - 2, 0, 2}
ConfigEpochs == {2, 3}
program_TotalEpochs == 5
program_BaseAccuracy == 72

\* Math.log(epoch + 1) * 0.1
EpochImprovement(epoch) ==
  CASE epoch = 1 -> 7 [] epoch = 2 -> 11 [] epoch = 3 -> 14
    [] epoch = 4 -> 16 [] OTHER -> 18

\* Math.min(0.95, 0.3 + (epoch * 0.15) + (Math.random() * 0.1))
EpochAccuracy_first(epoch, random) == LEAST(95, 30 + (epoch * 15) + random)

\* Math.min(0.95, baseAccuracy + epochImprovement + randomNoise)
EpochAccuracy_second(epoch, randomNoise) ==
  LEAST(95, program_BaseAccuracy + EpochImprovement(epoch) + randomNoise)

\* the accuracy column of the inserted model: 0.85 + Math.random() * 0.1 in the
\* first function, results.bestAccuracy in the second
ModelAccuracy(run, random) ==
  IF run.version = "first" THEN 85 + random ELSE run.bestAccuracy

IdleTraining ==
  [pc |-> "idle", version |-> "first", totalEpochs |-> 0, epoch |-> 0,
   accuracy_value |-> << >>, bestAccuracy |-> 0, accuracy |-> 0]

\* processTraining is scheduled: totalEpochs is the constant 5 in the first
\* function and config.epochs in the second
accuracy_processTraining(version, epochs) ==
  /\ training.pc \in {"idle", "done", "failed"}
  /\ training' = [IdleTraining EXCEPT
        !.pc = "loop", !.version = version,
        !.totalEpochs = IF version = "first" THEN program_TotalEpochs ELSE epochs]
  /\ UNCHANGED <<feedbackVars, modelVars, trainVars, chatVars, response, examples, dataReq, fetched, fallback>>

\* one pass of the epoch loop: compute the accuracy, track the best one
\* (second function only) and write accuracy_value to the job
accuracy_epoch(random, randomNoise) ==
  /\ training.pc = "loop"
  /\ training.epoch < training.totalEpochs
  /\ LET epoch == training.epoch + 1
         accuracy == IF training.version = "first"
                       THEN EpochAccuracy_first(epoch, random)
                       ELSE EpochAccuracy_second(epoch, randomNoise)
     IN  training' = [training EXCEPT
            !.epoch = epoch,
            !.accuracy_value = Append(@, accuracy),
            !.bestAccuracy = IF training.version = "second" /\ accuracy > @
                               THEN accuracy ELSE @]
  /\ UNCHANGED <<feedbackVars, modelVars, trainVars, chatVars, response, examples, dataReq, fetched, fallback>>

\* after the loop: insert the model; an insert error is thrown and the catch
\* block marks the job failed
accuracy_insertModel(random, ok) ==
  /\ training.pc = "loop"
  /\ training.epoch = training.totalEpochs
  /\ IF ok
       THEN training' = [training EXCEPT !.pc = "done",
                                         !.accuracy = ModelAccuracy(training, random)]
       ELSE training' = [training EXCEPT !.pc = "failed"]
  /\ UNCHANGED <<feedbackVars, modelVars, trainVars, chatVars, response, examples, dataReq, fetched, fallback>>

\* ------------------------------------------- handlers: authentication, errors
\* Every handler is seen here from its first statement to its answer: the
\* Authorization header it receives, whether its body throws, the status and
\* the fields of the answer, and whether a store statement was reached.
Handlers == {"feedback.js", "part_001", "training.js", "training.js advanced", "part_004"}
Headers == {"none", "Basic abc", "Bearer invalid", "Bearer expired", "Bearer valid"}

\* authHeader && authHeader.startsWith('Bearer ')
StartsWithBearer(authHeader) ==
  authHeader \in {"Bearer invalid", "Bearer expired", "Bearer valid"}

\* authHeader.split(' ')[1] on a missing header and jwt.verify on a token that
\* is not a valid unexpired one both throw
VerifyThrows(authHeader) == authHeader # "Bearer valid"

\* part_001 reads the header without the check the other handlers make
ChecksHeader(h) == h # "part_001"

\* the fields of the answer written by the catch block of handler(req, res)
CatchBody(h) ==
  CASE h = "training.js" -> {"error", "details", "stack"}
    [] h = "training.js advanced" -> {"error", "details", "stack"}
    [] h = "part_004" -> {"error", "details"}
    [] OTHER -> {"error"}

Answer(header, status, body, store) ==
  [header |-> header, status |-> status, body |-> body, store |-> store]

\* what the body answers when a statement in it throws: startAdvancedTraining
\* of training.js catches for itself and answers 400
BodyThrown(h, header) ==
  IF h = "training.js advanced"
    THEN Answer(header, 400, {"error", "details", "userId", "requestBody"}, TRUE)
    ELSE Answer(header, 500, CatchBody(h), TRUE)

handler(h, authHeader, thrown) ==
  /\ response' = [response EXCEPT ![h] =
        IF ChecksHeader(h) /\ ~StartsWithBearer(authHeader)
          THEN Answer(authHeader, 401, {"error"}, FALSE)
        ELSE IF VerifyThrows(authHeader)
          THEN Answer(authHeader, 500, CatchBody(h), FALSE)
        ELSE IF thrown
          THEN BodyThrown(h, authHeader)
        ELSE Answer(authHeader, 200, {"success"}, TRUE)]
  /\ UNCHANGED <<feedbackVars, modelVars, trainVars, chatVars, training, examples, dataReq, fetched, fallback>>

\* ------------------------------------------- api/data/training.js
\* The rows of training_data with their text.  Strings are drawn from a few
\* samples; length and trim are tabulated for them.
MaxExamples == 2
DataInputs == {"", "hi", " a  ", "hello"}
DataOutputs == {"", "ok", "world"}
QualityInputs == {0, 30, 70}

\* String.prototype.length
StrLen(str) ==
  CASE str = "" -> 0 [] str = "a" -> 1 [] str = "hi" -> 2 [] str = "ok" -> 2
    [] str = " a  " -> 4 [] str = "hello" -> 5 [] str = "world" -> 5
    [] OTHER -> 6

\* String.prototype.trim
Trim(str) == IF str = " a  " THEN "a" ELSE str

\* Math.max(1, Math.min(5, quality_score)), in tenths
ClampQuality(quality_score) == GREATEST(10, LEAST(50, quality_score))

\* the two validations of addTrainingData, in the order the code makes them
AddRejection_trimmed(input, output) ==
  IF input = "" \/ output = ""
    THEN "Input and output are required"
  ELSE IF StrLen(Trim(input)) < 3 \/ StrLen(Trim(output)) < 3
    THEN "Input and output must be at least 3 characters"
  ELSE ""

AddRejection(input, output) ==
  IF input = "" \/ output = ""
    THEN "Input and output are required"
  ELSE IF StrLen(input) < 3 \/ StrLen(output) < 3
    THEN "Input and output must be at least 3 characters"
  ELSE ""

DataAnswer(op, input, output, status, error) ==
  [op |-> op, input |-> input, output |-> output, status |-> status, error |-> error]

\* POST /data/training
addTrainingData(u, input, output, quality_score, ok) ==
  /\ Len(examples) < MaxExamples
  /\ IF AddRejection(input, output) # ""
       THEN /\ dataReq' = DataAnswer("add", input, output, 400, AddRejection(input, output))
            /\ UNCHANGED examples
     ELSE IF ~ok
       THEN /\ dataReq' = DataAnswer("add", input, output, 500, "thrown")
            /\ UNCHANGED examples
     ELSE /\ examples' = Append(examples,
                [user_id |-> u, input |-> Trim(input), output |-> Trim(output),
                 quality_score |-> ClampQuality(quality_score), tags |-> {},
                 used_in_training |-> FALSE])
          /\ dataReq' = DataAnswer("add", input, output, 200, "")
  /\ UNCHANGED <<feedbackVars, modelVars, trainVars, chatVars, training, response, fetched, fallback>>

\* the bodies of PUT /data/training: fields names the properties that are defined
UpdateBodies ==
  { [fields |-> {"input"}, input |-> "hello", output |-> "", quality_score |-> 0, tags |-> {}],
    [fields |-> {"output"}, input |-> "", output |-> "world", quality_score |-> 0, tags |-> {}],
    [fields |-> {"input", "output"}, input |-> " a  ", output |-> "ok",
     quality_score |-> 0, tags |-> {}],
    [fields |-> {"quality_score", "tags"}, input |-> "", output |-> "",
     quality_score |-> 70, tags |-> {"t"}],
    [fields |-> {}, input |-> "", output |-> "", quality_score |-> 0, tags |-> {}] }

\* the updates object built from the body
ApplyUpdates(row, body) ==
  [row EXCEPT
     !.input = IF "input" \in body.fields THEN Trim(body.input) ELSE @,
     !.output = IF "output" \in body.fields THEN Trim(body.output) ELSE @,
     !.quality_score = IF "quality_score" \in body.fields
                         THEN ClampQuality(body.quality_score) ELSE @,
     !.tags = IF "tags" \in body.fields THEN body.tags ELSE @]

\* PUT /data/training: .update(updates).eq('id', id).eq('user_id', userId)
\* .select().single(); no row matched is an error, which is thrown
updateTrainingData(u, id, body) ==
  /\ IF id = 0
       THEN /\ dataReq' = DataAnswer("update", body.input, body.output, 400,
                                      "Training data ID required")
            /\ UNCHANGED examples
     ELSE IF id \in 1..Len(examples) /\ examples[id].user_id = u
       THEN /\ examples' = [examples EXCEPT ![id] = ApplyUpdates(@, body)]
            /\ dataReq' = DataAnswer("update", body.input, body.output, 200, "")
     ELSE /\ dataReq' = DataAnswer("update", body.input, body.output, 500, "thrown")
          /\ UNCHANGED examples
  /\ UNCHANGED <<feedbackVars, modelVars, trainVars, chatVars, training, response, fetched, fallback>>

\* processTraining's last statement, seen from this table: the rows a job
\* trained on get used_in_training = true
markUsedInTraining(ids) ==
  /\ ids # {}
  /\ \A id \in ids : ~examples[id].used_in_training /\ examples[id].quality_score >= 30
  /\ examples' = [id \in 1..Len(examples) |->
                    IF id \in ids THEN [examples[id] EXCEPT !.used_in_training = TRUE]
                    ELSE examples[id]]
  /\ UNCHANGED <<feedbackVars, modelVars, trainVars, chatVars, training, response, dataReq, fetched, fallback>>

\* ------------------------------------------- api/learning.js: patterns
PatternConfidences == {0 - 50, 5, 50, 150}
MinConfidences == {0, 50}
program_DefaultLimit == 20

\* the ids of rows, highest confidence first: .order('confidence', {ascending:
\* false}); rows of equal confidence come in an order the store chooses, here
\* by id
RECURSIVE OrderByConfidence(_)
OrderByConfidence(ids) ==
  IF ids = {} THEN << >>
  ELSE LET top == CHOOSE id \in ids :
                    \A other \in ids :
                       \/ learning_patterns[id].confidence > learning_patterns[other].confidence
                       \/ /\ learning_patterns[id].confidence = learning_patterns[other].confidence
                          /\ id <= other
       IN  <<top>> \o OrderByConfidence(ids \ {top})

\* .range(offset, offset + limit - 1)
Range(seq, offset, limit) ==
  SubSeq(seq, offset + 1, LEAST(Len(seq), offset + limit))

PatternItem(id) ==
  [id |-> id, input_pattern |-> learning_patterns[id].input_pattern,
   response_pattern |-> learning_patterns[id].response_pattern,
   confidence |-> learning_patterns[id].confidence]

\* GET /learning/patterns with the default limit, offset and sort
getPatterns(u, min_confidence) ==
  /\ LET ids == { id \in PatternIds : /\ learning_patterns[id].user_id = u
                                      /\ learning_patterns[id].confidence >= min_confidence }
         page == Range(OrderByConfidence(ids), 0, program_DefaultLimit)
     IN  fetched' = [user |-> u, min_confidence |-> min_confidence,
                     patterns |-> [k \in 1..Len(page) |-> PatternItem(page[k])]]
  /\ UNCHANGED <<feedbackVars, modelVars, trainVars, chatVars,
                 training, response, examples, dataReq, fallback>>

\* PUT /learning/patterns: confidence is stored when the body defines it,
\* response_pattern when it is not empty; no row matched is an error, thrown
updatePattern(u, id, hasConfidence, confidence, response_pattern) ==
  /\ fb.pc # "update"
  /\ id \in PatternIds
  /\ learning_patterns[id].user_id = u
  /\ learning_patterns' = [learning_patterns EXCEPT
        ![id].confidence = IF hasConfidence THEN confidence ELSE @,
        ![id].response_pattern = IF response_pattern # "" THEN response_pattern ELSE @]
  /\ UNCHANGED <<pattern_feedback, fb>>
  /\ UNCHANGED modelVars
  /\ UNCHANGED trainVars
  /\ UNCHANGED chatVars
  /\ UNCHANGED sideVars

\* ------------------------------------------- part_004: the category fallback
\* A message is a sequence of characters.  The sample messages are one phrase
\* or several joined by a blank.
MaxPhrases == 2
Phrases ==
  { <<"h", "e", "l", "l", "o", " ", "t", "h", "e", "r", "e">>,
    <<"h", "o", "w", " ", "d", "o", " ", "I", " ", "d", "e", "b", "u", "g", " ", "t", "h", "i", "s", " ", "r", "e", "a", "c", "t", " ", "f", "u", "n", "c", "t", "i", "o", "n">>,
    <<"w", "h", "a", "t", " ", "i", "s", " ", "a", "g", "i", "l", "e">>,
    <<"t", "h", "i", "s">>,
    <<"H", "i">>,
    <<"i", " ", "a", "m", " ", "b", "o", "b">>,
    <<"i", " ", "a", "m", " ", "a", " ", "d", "e", "v">>,
    <<"n", "o", " ", "t", "h", "a", "n", "k", "s">>,
    <<"t", "h", "e", " ", "A", "P", "I">>,
    <<"s", "u", "p">>,
    <<"w", "e", "a", "t", "h", "e", "r">>,
    <<"t", "h", "a", "t", "'", "s", " ", "m", "y", " ", "c", "a", "t">>,
    <<"b", "o", "b">> }
Histories == { [length |-> 0, lastAssistant |-> FALSE],
               [length |-> 2, lastAssistant |-> TRUE],
               [length |-> 6, lastAssistant |-> TRUE] }

RECURSIVE Join(_)
Join(phrases) ==
  IF Len(phrases) = 1 THEN phrases[1]
  ELSE phrases[1] \o <<" ">> \o Join(Tail(phrases))

SampleMessages ==
  { Join(p) : p \in UNION { [1..n -> Phrases] : n \in 1..MaxPhrases } }

LowerChar(c) ==
  CASE c = "A" -> "a" [] c = "H" -> "h" [] c = "I" -> "i" [] c = "P" -> "p"
    [] OTHER -> c

\* String.prototype.toLowerCase
ToLowerCase(msg) == [i \in 1..Len(msg) |-> LowerChar(msg[i])]

\* String.prototype.trim
RECURSIVE TrimStart(_)
TrimStart(msg) ==
  IF msg # << >> /\ Head(msg) = " " THEN TrimStart(Tail(msg)) ELSE msg

RECURSIVE TrimEnd(_)
TrimEnd(msg) ==
  IF msg # << >> /\ msg[Len(msg)] = " " THEN TrimEnd(SubSeq(msg, 1, Len(msg) - 1)) ELSE msg

TrimMessage(msg) == TrimEnd(TrimStart(msg))

\* String.prototype.includes and startsWith
Includes(msg, word) ==
  \E i \in 1..(Len(msg) - Len(word) + 1) : SubSeq(msg, i, i + Len(word) - 1) = word

StartsWith(msg, word) ==
  Len(msg) >= Len(word) /\ SubSeq(msg, 1, Len(word)) = word

\* \w, in a lower-case message
WordChars ==
  {"a", "b", "c", "d", "e", "f", "g", "h", "i", "j", "k", "l", "m", "n", "o", "p", "q",
   "r", "s", "t", "u", "v", "w", "x", "y", "z", "_"}

\* the length of the match of \w+ at the head of msg
RECURSIVE WordRun(_)
WordRun(msg) ==
  IF msg # << >> /\ Head(msg) \in WordChars THEN 1 + WordRun(Tail(msg)) ELSE 0

\* the length of the first word of a match of \s+(\w+) at the head of msg, 0 if none
SpacesThenWord(msg) ==
  IF msg # << >> /\ Head(msg) = " " THEN WordRun(TrimStart(msg)) ELSE 0

Rest(msg, word) == SubSeq(msg, Len(word) + 1, Len(msg))

IntroWords ==
  { <<"i", "'", "m">>,
    <<"i", "m">>,
    <<"i", " ", "a", "m">>,
    <<"m", "y", " ", "n", "a", "m", "e", " ", "i", "s">>,
    <<"c", "a", "l", "l", " ", "m", "e">> }
IntroStarts == IntroWords \cup { <<"t", "h", "i", "s", " ", "i", "s">> }
Greetings ==
  { <<"h", "i">>,
    <<"h", "e", "l", "l", "o">>,
    <<"h", "e", "y">> }

\* isIntroduction: the message matches one of the introPatterns and the
\* conversation has fewer than 6 messages
isIntroduction(msg, history) ==
  /\ \/ \E w \in IntroStarts : StartsWith(msg, w) /\ SpacesThenWord(Rest(msg, w)) > 0
     \/ \E g \in Greetings, w \in IntroWords :
           /\ StartsWith(msg, g)
           /\ LET r1 == Rest(msg, g)
                  r2 == IF r1 # << >> /\ Head(r1) = "," THEN Tail(r1) ELSE r1
                  r3 == TrimStart(r2)
              IN  StartsWith(r3, w) /\ SpacesThenWord(Rest(r3, w)) > 0
  /\ history.length < 6

\* the positions where /(?:i'm|im|i am|my name is|call me)\s+(\w+)/ matches
NameMatches(msg) ==
  { i \in 1..Len(msg) :
      \E w \in IntroWords :
         LET tail == SubSeq(msg, i, Len(msg))
         IN  StartsWith(tail, w) /\ SpacesThenWord(Rest(tail, w)) > 0 }

\* extractName: whether a name is found.  The first pattern's match is the
\* leftmost one; a captured word of one letter makes the code try /^(\w+)$/
hasName(msg) ==
  LET first == CHOOSE i \in NameMatches(msg) : \A j \in NameMatches(msg) : i <= j
      tail == SubSeq(msg, first, Len(msg))
      w == CHOOSE x \in IntroWords :
              StartsWith(tail, x) /\ SpacesThenWord(Rest(tail, x)) > 0
  IN  \/ NameMatches(msg) # {} /\ SpacesThenWord(Rest(tail, w)) > 1
      \/ WordRun(msg) = Len(msg) /\ Len(msg) > 1

CorrectionStarts ==
  { <<"t", "h", "a", "t", "'", "s", " ", "n", "o", "t">>,
    <<"t", "h", "a", "t", "'", "s", " ", "w", "r", "o", "n", "g">>,
    <<"t", "h", "a", "t", "'", "s", " ", "m", "y">>,
    <<"t", "h", "a", "t", "s", " ", "m", "y">> }

\* isCorrection: /^no,?\s+/, /^that's (not|wrong)/, /^(actually|no)\s+/,
\* /^that'?s my/, and the last message of the history is the assistant's
isCorrection(msg, history) ==
  /\ \/ \E w \in { <<"n", "o">>, <<"n", "o", ",">>, <<"a", "c", "t", "u", "a", "l", "l", "y">> } :
           StartsWith(msg, w) /\ Rest(msg, w) # << >> /\ Head(Rest(msg, w)) = " "
     \/ \E w \in CorrectionStarts : StartsWith(msg, w)
  /\ history.length > 0 /\ history.lastAssistant

ProgrammingKeywords ==
  { <<"c", "o", "d", "e">>,
    <<"p", "r", "o", "g", "r", "a", "m", "m", "i", "n", "g">>,
    <<"j", "a", "v", "a", "s", "c", "r", "i", "p", "t">>,
    <<"r", "e", "a", "c", "t">>,
    <<"p", "y", "t", "h", "o", "n">>,
    <<"f", "u", "n", "c", "t", "i", "o", "n">>,
    <<"v", "a", "r", "i", "a", "b", "l", "e">>,
    <<"d", "e", "b", "u", "g">>,
    <<"h", "t", "m", "l">>,
    <<"c", "s", "s">>,
    <<"a", "p", "i">> }
GreetingKeywords ==
  { <<"h", "e", "l", "l", "o">>,
    <<"h", "i">>,
    <<"h", "e", "y">>,
    <<"g", "o", "o", "d", " ", "m", "o", "r", "n", "i", "n", "g">>,
    <<"g", "o", "o", "d", " ", "a", "f", "t", "e", "r", "n", "o", "o", "n">>,
    <<"g", "o", "o", "d", " ", "e", "v", "e", "n", "i", "n", "g">> }
HelpKeywords ==
  { <<"h", "e", "l", "p">>,
    <<"h", "o", "w">>,
    <<"w", "h", "a", "t">>,
    <<"e", "x", "p", "l", "a", "i", "n">>,
    <<"t", "e", "l", "l", " ", "m", "e">>,
    <<"s", "h", "o", "w", " ", "m", "e">>,
    <<"c", "a", "n", " ", "y", "o", "u">>,
    <<"c", "o", "u", "l", "d", " ", "y", "o", "u">> }

detectCategory_greetingFirst(message) ==
  LET msg == ToLowerCase(message) IN
  IF (\E w \in GreetingKeywords : Includes(msg, w)) \/ StartsWith(msg, <<"s", "u", "p">>)
    THEN "greeting"
  ELSE IF \E w \in ProgrammingKeywords : Includes(msg, w) THEN "programming"
  ELSE IF \E w \in HelpKeywords : Includes(msg, w) THEN "help"
  ELSE "general"

detectCategory(message) ==
  LET msg == ToLowerCase(message) IN
  IF \E w \in ProgrammingKeywords : Includes(msg, w) THEN "programming"
  ELSE IF (\E w \in GreetingKeywords : Includes(msg, w)) \/ StartsWith(msg, <<"s", "u", "p">>)
    THEN "greeting"
  ELSE IF \E w \in HelpKeywords : Includes(msg, w) THEN "help"
  ELSE "general"

\* the confidence generateContextualFallback attaches to each category
CategoryConfidence(category) ==
  CASE category = "greeting" -> 70
    [] category = "programming" -> 60
    [] category = "help" -> 60
    [] OTHER -> 40

generateContextualFallback(message, history) ==
  /\ fallback.category = ""
  /\ LET msg == TrimMessage(ToLowerCase(message))
         category == detectCategory(msg)
     IN  fallback' =
           IF isIntroduction(msg, history)
             THEN [message |-> message, history |-> history, category |-> "introduction",
                   confidence |-> IF hasName(msg) THEN 70 ELSE 60]
           ELSE IF isCorrection(msg, history)
             THEN [message |-> message, history |-> history, category |-> "clarification",
                   confidence |-> 60]
           ELSE [message |-> message, history |-> history, category |-> category,
                 confidence |-> CategoryConfidence(category)]
  /\ UNCHANGED <<feedbackVars, modelVars, trainVars, chatVars,
                 training, response, examples, dataReq, fetched>>

Init ==
  /\ learning_patterns = << >>
  /\ pattern_feedback = 0
  /\ fb = [seq |-> 0, pc |-> "idle", variant |-> "feedback", user |-> "u1", pattern_id |-> 0,
           body |-> [feedback_type |-> "", feedback_score |-> 0, corrected_response |-> ""],
           status |-> 0, inserted |-> 0, attempted |-> FALSE]
  /\ models = << >>
  /\ act = [r \in ModelReqs |-> IdleReq]
  /\ everActivated = {}
  /\ training_data = << >>
  /\ training_jobs = << >>
  /\ start = [s \in StartReqs |-> IdleStart]
  /\ runs = << >>
  /\ chat = [c \in ChatReqs |-> IdleChat]
  /\ chatSeq = 0
  /\ accepted = {}
  /\ chatStore = [conversations |-> 0, messages |-> 0]
  /\ training = IdleTraining
  /\ response = [h \in Handlers |-> Answer("", 0, {}, FALSE)]
  /\ examples = << >>
  /\ dataReq = DataAnswer("", "", "", 0, "")
  /\ fetched = [user |-> "", min_confidence |-> 0, patterns |-> << >>]
  /\ fallback = [message |-> << >>, history |-> [length |-> 0, lastAssistant |-> FALSE],
                 category |-> "", confidence |-> 0]

NextFeedback ==
  \/ \E u \in Users, i \in PatternInputs, r \in {"resp", ""}, c \in ConfidenceInputs,
        ok \in BOOLEAN :
        createPattern(u, i, r, c, ok)
  \/ \E u \in Users, p \in 0..(MaxPatterns + 1), b \in FeedbackBodies, ok \in BOOLEAN :
        handleFeedback_insert(u, p, b, ok)
  \/ handleFeedback_update
  \/ \E u \in Users, p \in 0..(MaxPatterns + 1), b \in FeedbackBodies, ok \in BOOLEAN :
        handleFeedback_part001_insert(u, p, b, ok)
  \/ handleFeedback_part001_update

SpecFeedback == Init /\ [][NextFeedback]_vars

\* the requests api/learning/feedback.js and the pattern endpoint serve
NextFeedbackJs ==
  \/ \E u \in Users, r \in {"resp", ""}, c \in ConfidenceInputs, ok \in BOOLEAN :
        createPattern(u, "hello", r, c, ok)
  \/ \E u \in Users, p \in 0..(MaxPatterns + 1), b \in FeedbackBodies, ok \in BOOLEAN :
        handleFeedback_insert(u, p, b, ok)
  \/ handleFeedback_update

SpecFeedbackJs == Init /\ [][NextFeedbackJs]_vars

\* /ai/models requests handled one after the other: a request takes a step
\* only while every other request is at rest
NextModelsSeq ==
  \/ \E u \in Users : ModelsQuiescent /\ ModelTrained(u)
  \/ \E r \in ModelReqs, u \in Users, id \in 0..MaxModels, ok \in BOOLEAN :
        OthersIdle(r) /\ activateModel_verify(r, u, id, ok)
  \/ \E r \in ModelReqs : OthersIdle(r) /\ activateModel_deactivate(r)
  \/ \E r \in ModelReqs, ok \in BOOLEAN : OthersIdle(r) /\ activateModel_activate(r, ok)
  \/ \E r \in ModelReqs, u \in Users, id \in 0..MaxModels, ok \in BOOLEAN :
        OthersIdle(r) /\ deleteModel_check(r, u, id, ok)
  \/ \E r \in ModelReqs, ok \in BOOLEAN : OthersIdle(r) /\ deleteModel_archive(r, ok)

SpecModelsSeq == Init /\ [][NextModelsSeq]_vars

\* /ai/models requests overlap: the store statements of two requests interleave
NextModels ==
  \/ \E u \in Users : ModelTrained(u)
  \/ \E r \in ModelReqs, u \in Users, id \in 0..MaxModels, ok \in BOOLEAN :
        activateModel_verify(r, u, id, ok)
  \/ \E r \in ModelReqs : activateModel_deactivate(r)
  \/ \E r \in ModelReqs, ok \in BOOLEAN : activateModel_activate(r, ok)
  \/ \E r \in ModelReqs, u \in Users, id \in 0..MaxModels, ok \in BOOLEAN :
        deleteModel_check(r, u, id, ok)
  \/ \E r \in ModelReqs, ok \in BOOLEAN : deleteModel_archive(r, ok)

SpecModels == Init /\ [][NextModels]_vars

\* the training endpoints other than the train.js create-job handler, the
\* writers of training_data and the background runs
TrainRest ==
  \/ \E u \in TrainUsers, b \in RowBatches : storeTrainingData(u, b)
  \/ \E u \in TrainUsers, e \in EpochInputs, ok \in BOOLEAN : training_startTraining(u, e, ok)
  \/ \E u \in TrainUsers, e \in EpochInputs, ok \in BOOLEAN :
        advance_startAdvancedTraining(u, e, ok)
  \/ \E u \in TrainUsers, e \in EpochInputs, ok \in BOOLEAN :
        advanced_startAdvancedTraining(u, e, ok)
  \/ \E u \in TrainUsers, ok \in BOOLEAN : triggerAutoTraining(u, ok)
  \/ \E j \in 1..MaxJobs : RunStep(j)

\* train.js create-job requests overlap
NextTrain ==
  \/ \E s \in StartReqs, u \in TrainUsers, e \in EpochInputs, ok \in BOOLEAN :
        startTraining_select(s, u, e, ok)
  \/ \E s \in StartReqs : startTraining_check(s)
  \/ \E s \in StartReqs, ok \in BOOLEAN : startTraining_insert(s, ok)
  \/ TrainRest

SpecTrain == Init /\ [][NextTrain]_vars

\* train.js create-job requests arrive one after the other; every other
\* endpoint and every background run interleaves freely
NextTrainSeq ==
  \/ \E u \in TrainUsers, e \in EpochInputs, ok \in BOOLEAN :
        startTraining_select("s1", u, e, ok)
  \/ startTraining_check("s1")
  \/ \E ok \in BOOLEAN : startTraining_insert("s1", ok)
  \/ TrainRest

SpecTrainSeq == Init /\ [][NextTrainSeq]_vars

\* the create-job handlers of part_007 and the question generator beside the
\* endpoints of SpecTrainSeq
NextStart ==
  \/ \E u \in TrainUsers, n \in QuestionCounts, ok \in BOOLEAN :
        generateRandomQuestions(u, n, ok)
  \/ \E u \in TrainUsers, e \in EpochInputs, ok \in BOOLEAN :
        part007_startTraining(u, e, ok)
  \/ \E u \in TrainUsers, e \in EpochInputs, ok \in BOOLEAN :
        part007_startAdvancedTraining(u, e, ok)
  \/ NextTrainSeq

SpecStart == Init /\ [][NextStart]_vars

\* one processTraining run of train.js after the other, either function
NextAccuracy ==
  \/ \E v \in Versions, e \in ConfigEpochs : accuracy_processTraining(v, e)
  \/ \E r \in RandomTenth, n \in RandomNoise : accuracy_epoch(r, n)
  \/ \E r \in RandomTenth, ok \in BOOLEAN : accuracy_insertModel(r, ok)

SpecAccuracy == Init /\ [][NextAccuracy]_vars

\* requests arrive at the handlers in any order, with any Authorization header
NextHandlers ==
  \E h \in Handlers, authHeader \in Headers, thrown \in BOOLEAN :
     handler(h, authHeader, thrown)

SpecHandlers == Init /\ [][NextHandlers]_vars

\* the requests api/data/training.js serves, and training runs marking rows
NextData ==
  \/ \E u \in Users, i \in DataInputs, o \in DataOutputs, q \in QualityInputs,
        ok \in BOOLEAN : addTrainingData(u, i, o, q, ok)
  \/ \E u \in Users, id \in 0..MaxExamples, b \in UpdateBodies :
        updateTrainingData(u, id, b)
  \/ \E ids \in SUBSET (1..Len(examples)) : markUsedInTraining(ids)

SpecData == Init /\ [][NextData]_vars

\* POST /data/training requests of one user, and training runs marking rows
NextDataAdd ==
  \/ \E u \in TrainUsers, i \in DataInputs, o \in DataOutputs, q \in {30, 70},
        ok \in BOOLEAN : addTrainingData(u, i, o, q, ok)
  \/ \E ids \in SUBSET (1..Len(examples)) : markUsedInTraining(ids)

SpecDataAdd == Init /\ [][NextDataAdd]_vars

\* the pattern endpoint: create, update and list
NextPatterns ==
  \/ \E u \in Users, r \in {"resp", ""}, c \in PatternConfidences, ok \in BOOLEAN :
        createPattern(u, "hello", r, c, ok)
  \/ \E u \in Users, id \in 1..MaxPatterns, h \in BOOLEAN, c \in PatternConfidences,
        r \in {"new", ""} : updatePattern(u, id, h, c, r)
  \/ \E u \in Users, m \in MinConfidences : getPatterns(u, m)

SpecPatterns == Init /\ [][NextPatterns]_vars

\* one call of the category fallback, on any sample message and history; the
\* function keeps no state, so one call per behaviour shows all it does
NextFallback ==
  \E message \in SampleMessages, history \in Histories :
     generateContextualFallback(message, history)

SpecFallback == Init /\ [][NextFallback]_vars

\* the event loop runs every scheduled callback and every awaited store call returns
SpecTrainFair == SpecTrainSeq /\ \A j \in 1..MaxJobs : WF_vars(RunStep(j))

\* the chat handler, with patterns also created through POST /learning/patterns
NextChat ==
  \/ \E u \in Users, i \in PatternInputs, r \in {"resp", ""}, c \in ConfidenceInputs,
        ok \in BOOLEAN :
        createPattern(u, i, r, c, ok)
  \/ \E c \in ChatReqs : ChatStep(c)

SpecChat == Init /\ [][NextChat]_vars

\* chat requests arrive one after the other
NextChatSeq ==
  \/ \E u \in Users, i \in PatternInputs, r \in {"resp", ""}, c \in ConfidenceInputs,
        ok \in BOOLEAN :
        createPattern(u, i, r, c, ok)
  \/ ChatStep("c1")

SpecChatSeq == Init /\ [][NextChatSeq]_vars

\* ================================================================ claims

\* C1: after every feedback event the api/learning feedback handler applies to
\* a pattern, that pattern's confidence lies within [0.1, 1.0].
C1_ConfidenceWithinBounds ==
  (fb.pc = "done" /\ fb.variant = "feedback" /\ fb.attempted) =>
     \A id \in FeedbackMatches("feedback", fb.user, fb.pattern_id) :
        /\ learning_patterns[id].confidence >= 10
        /\ learning_patterns[id].confidence <= 100

\* C7: a pattern update is attempted only by a request whose insert into
\* pattern_feedback has succeeded, and the inserted row stays in the table.
C7_InsertBeforeUpdate ==
  (fb.pc = "update" \/ fb.attempted) =>
     (fb.inserted # 0 /\ fb.inserted <= pattern_feedback)

C5_ExactlyOneActive ==
  ModelsQuiescent =>
     \A u \in Users :
        Cardinality(ActiveModels(u)) = (IF u \in everActivated THEN 1 ELSE 0)

\* what GET /ai/train?jobId=j answers
PollJob(j) == training_jobs[j]

\* C2: of the jobs the create-job handlers of train.js and training.js have
\* inserted, a user has at every moment at most one that is pending or running.
C2_AtMostOneActiveJob ==
  \A u \in TrainUsers :
     Cardinality({ j \in ActiveJobs(u) : runs[j].variant \in {"train", "training"} }) <= 1

\* C3: every job is created as pending, and a job's status changes only
\* pending -> running, running -> completed or running -> failed.
C3_StatusTransitions ==
  [][ \A j \in DOMAIN training_jobs' :
        IF j \in JobIds
          THEN \/ training_jobs'[j].status = training_jobs[j].status
               \/ <<training_jobs[j].status, training_jobs'[j].status>> \in
                     { <<"pending", "running">>, <<"running", "completed">>,
                       <<"running", "failed">> }
          ELSE training_jobs'[j].status = "pending"
    ]_vars

\* C4: of two successive polls of a job the later one sees a
\* progress_percentage and a current_epoch at least as large as the earlier one.
C4_ProgressMonotone ==
  [][ \A j \in JobIds :
        /\ PollJob(j)'.progress_percentage >= PollJob(j).progress_percentage
        /\ PollJob(j)'.current_epoch >= PollJob(j).current_epoch
    ]_vars

\* a train.js job was polled half way through its epochs
C4_Witness ==
  \E j \in JobIds :
     /\ runs[j].variant = "train"
     /\ PollJob(j).status = "running"
     /\ PollJob(j).current_epoch = 1
     /\ PollJob(j).progress_percentage = 50

\* C6: every job that has been created eventually is completed or failed.
C6_EveryJobTerminates ==
  \A j \in 1..MaxJobs :
     (j \in JobIds) ~> (j \in JobIds /\ training_jobs[j].status \in {"completed", "failed"})

\* C8: once a step of a job's background run has thrown, the job is failed
\* with a recorded error message, and neither the run nor the job row moves again.
C8_ThrowFailsJob ==
  /\ [](\A j \in JobIds :
          runs[j].thrown => /\ training_jobs[j].status = "failed"
                            /\ training_jobs[j].error_message # "")
  /\ [][ \A j \in JobIds :
            runs[j].thrown => /\ runs'[j] = runs[j]
                              /\ training_jobs'[j] = training_jobs[j] ]_vars

\* the insert into models of a train.js run and of a training.js run failed
C8_Witness ==
  /\ \E j \in JobIds : runs[j].variant = "train" /\ runs[j].thrown
  /\ \E j \in JobIds : runs[j].variant = "training" /\ runs[j].thrown

\* C9: a completed job carries the id of the model its run inserted, and
\* every training_data row the run was handed is marked used_in_training.
C9_CompletedHasModelAndUsed ==
  \A j \in JobIds :
     training_jobs[j].status = "completed" =>
        /\ training_jobs[j].model_id \in ModelIds
        /\ training_jobs[j].model_id = runs[j].model
        /\ \A g \in runs[j].data : training_data[g].used_in_training

\* C11: a recorded feedback event that is neither positive with a score of at
\* least 4, nor negative, nor a correction with a replacement text, leaves
\* every pattern as it was and stays recorded.
C11_OtherFeedbackNoMutation ==
  [][ ( /\ fb.pc = "update" /\ fb'.pc = "done" /\ fb.inserted # 0
        /\ ~(fb.body.feedback_type = "positive" /\ fb.body.feedback_score >= 4)
        /\ fb.body.feedback_type # "negative"
        /\ ~(fb.body.feedback_type = "correction" /\ fb.body.corrected_response # "") )
      => /\ learning_patterns' = learning_patterns
         /\ pattern_feedback' = pattern_feedback
    ]_vars

\* no accepting chat request is between its read and its write of use_count
ChatQuiescent == \A c \in ChatReqs : chat[c].pc # "use"

\* C12: the chat handler answers from a learned pattern only if the pattern
\* is a highest-confidence match among the user's patterns and its
\* confidence is at least 0.5.
C12_AcceptsOnlyConfident ==
  [][ \A c \in ChatReqs :
        (chat[c].pc = "generate" /\ chat'[c].pc = "use") =>
           /\ chat'[c].pattern \in TopPattern(chat[c].user, chat[c].message)
           /\ learning_patterns[chat'[c].pattern].confidence >= 50
    ]_vars

\* C13: once no acceptance is under way, every pattern's use_count is its
\* initial 1 plus the number of chat requests that accepted it.
C13_UseCountCountsAcceptances ==
  ChatQuiescent =>
     \A id \in PatternIds :
        learning_patterns[id].use_count =
           1 + Cardinality({ p \in accepted : p[2] = id })

\* C14: a chat request whose external call failed inserted no pattern, is
\* answered by the fallback step, and ends with 200 unless saving the
\* assistant message failed.
C14_ExternalFailureFallsBack ==
  /\ [](\A c \in ChatReqs :
          chat[c].external \in {"error", "thrown"} =>
             /\ chat[c].learned = 0
             /\ chat[c].source = "fallback"
             /\ chat[c].pc = "done" => chat[c].status \in {200, 500})
  /\ [][ \A c \in ChatReqs :
            ( /\ chat[c].pc = "external"
              /\ chat'[c].external \in {"error", "thrown"} )
            => /\ learning_patterns' = learning_patterns
               /\ chat'[c].pc = "aiMessage" ]_vars
  /\ [][ \A c \in ChatReqs :
            ( /\ chat[c].external \in {"error", "thrown"}
              /\ chat[c].pc = "respond" /\ chat'[c].pc = "done" )
            => chat'[c].status = 200 ]_vars

\* a request whose external call returned an error status was answered 200
\* from the fallback step
C14_Witness ==
  \E c \in ChatReqs :
     /\ chat[c].pc = "done" /\ chat[c].status = 200
     /\ chat[c].external = "error" /\ chat[c].source = "fallback"

\* C15: a create-job request of train.js or training.js that inserts the seed
\* rows, because the user had no qualifying row, goes on to create the job:
\* the step either inserts the job or leaves the request on its way to it.
C15_SeedThenCreateJob ==
  [][ ( /\ Len(training_data') = Len(training_data) + 1
        /\ training_data'[Len(training_data')].rows \in
              {program_SampleRows, program_SampleRowsTraining} )
      => \/ Len(training_jobs') = Len(training_jobs) + 1
         \/ \E s \in StartReqs : start[s].pc = "idle" /\ start'[s].pc = "check"
    ]_vars

\* C16: a standard create-job request from a user who has between one and four
\* unused examples of quality 3.0 or more inserts no training job and starts
\* no background run: no train.js request passes its data check, and no
\* single-step standard handler appends a job, in such a state
QualifyingCount(u) == RowCount(SelectUnused(u, 30))

C16_FewExamplesRejected ==
  [][\A u \in TrainUsers :
       QualifyingCount(u) \in 1..(program_MinExamples - 1) =>
         /\ \A s \in StartReqs :
               ~(start[s].pc = "idle" /\ start'[s].pc = "check"
                 /\ start'[s].user = u)
         /\ ~(/\ Len(training_jobs') = Len(training_jobs) + 1
              /\ training_jobs'[Len(training_jobs')].user_id = u
              /\ runs'[Len(runs')].variant = "training")]_vars

\* rows a select with .eq('used_in_training', false).gte('quality_score', q) returns
RECURSIVE UnusedRows(_, _, _)
UnusedRows(data, u, q) ==
  IF data = <<>> THEN 0
  ELSE (IF /\ Head(data).user_id = u
           /\ ~Head(data).used_in_training
           /\ Head(data).quality_score >= q
          THEN Head(data).rows ELSE 0) + UnusedRows(Tail(data), u, q)

\* C17: a training job is created only if, at creation time, its user has at
\* least five unused examples of quality 3.0 or more (standard job) or at
\* least ten unused examples of quality 4.0 or more (advanced job)
C17_JobNeedsEnoughExamples ==
  [][Len(training_jobs') = Len(training_jobs) + 1 =>
       LET u == training_jobs'[Len(training_jobs')].user_id
           variant == runs'[Len(runs')].variant
       IN  /\ variant \in {"train", "training"} =>
                UnusedRows(training_data', u, 30) >= 5
           /\ variant \in {"advanced", "advance"} =>
                UnusedRows(training_data', u, 40) >= 10]_vars

RECURSIVE MaxOf(_)
MaxOf(seq) ==
  IF seq = << >> THEN 0
  ELSE LET rest == MaxOf(Tail(seq))
       IN  IF Head(seq) > rest THEN Head(seq) ELSE rest

\* C18: the model inserted when a job completes has accuracy equal to the
\* maximum of the per-epoch accuracy values persisted for that job
C18_ModelAccuracyIsBest ==
  training.pc = "done" => training.accuracy = MaxOf(training.accuracy_value)

\* C19: every handler answers 401, without reading or writing the store, to a
\* request whose Authorization header is absent, is not a Bearer header, or
\* carries an invalid or expired token
C19_Unauthenticated401 ==
  \A h \in Handlers :
     response[h].header \in Headers \ {"Bearer valid"} =>
        response[h].status = 401 /\ ~response[h].store

\* C20: no 4xx or 5xx answer of any handler carries anything but a short
\* message field: no exception message, stack trace, user id or request body
C20_ErrorsCarryOnlyMessage ==
  \A h \in Handlers :
     response[h].status >= 400 => response[h].body \subseteq {"error"}

\* C21: once a training example has used_in_training = true its input and
\* output never change again
C21_UsedExamplesImmutable ==
  [][\A id \in 1..Len(examples) :
       examples[id].used_in_training =>
          /\ examples'[id].input = examples[id].input
          /\ examples'[id].output = examples[id].output]_vars

\* a step in which a POST /data/training request is answered
AddAnswered == dataReq'.op = "add" /\ (dataReq' # dataReq \/ Len(examples') # Len(examples))

\* C25 as stated: POST /data/training with an input or output shorter than 3
\* characters is answered 400 'Input and output must be at least 3
\* characters' and inserts no training example
C25_ShortRejected ==
  [][(AddAnswered /\ (StrLen(dataReq'.input) < 3 \/ StrLen(dataReq'.output) < 3)) =>
        /\ dataReq'.status = 400
        /\ dataReq'.error = "Input and output must be at least 3 characters"
        /\ Len(examples') = Len(examples)]_vars

\* C25 amended: POST /data/training is answered 400 and inserts nothing exactly
\* when the input or the output is empty or shorter than 3 characters as
\* submitted; the message is 'Input and output are required' when one of them
\* is empty and 'Input and output must be at least 3 characters' otherwise
C25_ShortOrEmptyRejected ==
  [][AddAnswered =>
       LET r == dataReq'
           empty == r.input = "" \/ r.output = ""
           short == StrLen(r.input) < 3 \/ StrLen(r.output) < 3
       IN  /\ (r.status = 400) = short
           /\ short => Len(examples') = Len(examples)
           /\ (short /\ empty) => r.error = "Input and output are required"
           /\ (short /\ ~empty) =>
                 r.error = "Input and output must be at least 3 characters"]_vars

\* the request with input 'hi' and output 'world' was answered 400
C25_Witness ==
  /\ dataReq.op = "add" /\ dataReq.input = "hi" /\ dataReq.output = "world"
  /\ dataReq.status = 400
  /\ dataReq.error = "Input and output must be at least 3 characters"

\* C22: getPatterns with min_confidence = 0 answers a list that contains every
\* pattern of the user, the one just created included, with the input_pattern
\* and response_pattern the row holds
C22_CreatedPatternIsListed ==
  [][(fetched' # fetched /\ fetched'.min_confidence = 0) =>
        \A id \in PatternIds :
           learning_patterns[id].user_id = fetched'.user =>
              \E k \in 1..Len(fetched'.patterns) :
                 /\ fetched'.patterns[k].id = id
                 /\ fetched'.patterns[k].input_pattern = learning_patterns[id].input_pattern
                 /\ fetched'.patterns[k].response_pattern =
                       learning_patterns[id].response_pattern]_vars

\* C29: every pattern created or edited through the pattern create and update
\* operations has a confidence within [0.1, 1.0], whatever the request supplies
C29_PatternConfidenceClamped ==
  \A id \in PatternIds :
     /\ learning_patterns[id].confidence >= 10
     /\ learning_patterns[id].confidence <= 100

\* C23: every answer of the category fallback has confidence exactly 0.4,
\* whichever of greeting, programming, help or general the message is
\* classified as
C23_FallbackConfidenceFixed ==
  fallback.category \in {"greeting", "programming", "help", "general"} =>
     fallback.confidence = 40

HasKeyword(message, keywords) ==
  \E w \in keywords : Includes(ToLowerCase(message), w)

\* C24: the category of a message depends on the message alone and is found
\* by testing the programming keywords first, then the greeting keywords, then
\* the help keywords, and is general otherwise; 'hello there' is a greeting,
\* 'how do I debug this react function' is programming, 'what is agile' is help
C24_ClassifyOrder ==
  fallback.category \in {"greeting", "programming", "help", "general"} =>
     LET m == fallback.message
         programming == HasKeyword(m, ProgrammingKeywords)
         greeting == HasKeyword(m, GreetingKeywords) \/ StartsWith(ToLowerCase(m), <<"s", "u", "p">>)
         help == HasKeyword(m, HelpKeywords)
     IN  /\ fallback.category = "programming" <=> programming
         /\ fallback.category = "greeting" <=> (~programming /\ greeting)
         /\ fallback.category = "help" <=> (~programming /\ ~greeting /\ help)
         /\ fallback.category = "general" <=> (~programming /\ ~greeting /\ ~help)
         /\ m = <<"h", "e", "l", "l", "o", " ", "t", "h", "e", "r", "e">> => fallback.category = "greeting"
         /\ m = <<"h", "o", "w", " ", "d", "o", " ", "I", " ", "d", "e", "b", "u", "g", " ", "t", "h", "i", "s", " ", "r", "e", "a", "c", "t", " ", "f", "u", "n", "c", "t", "i", "o", "n">> => fallback.category = "programming"
         /\ m = <<"w", "h", "a", "t", " ", "i", "s", " ", "a", "g", "i", "l", "e">> => fallback.category = "help"

\* 'how do I debug this react function' was classified, as programming
C24_Witness ==
  /\ fallback.message = <<"h", "o", "w", " ", "d", "o", " ", "I", " ", "d", "e", "b", "u", "g", " ", "t", "h", "i", "s", " ", "r", "e", "a", "c", "t", " ", "f", "u", "n", "c", "t", "i", "o", "n">>
  /\ fallback.category = "programming"

\* C26: whatever the interleaving of two activate-model requests for
\* different models of one user, once both have finished at most one of the
\* user's models has is_active = true
C26_ConcurrentActivateOneActive ==
  ModelsQuiescent => \A u \in Users : Cardinality(ActiveModels(u)) <= 1

\* C30: a model with status archived never has is_active = true, in every
\* interleaving of activate and delete requests
C30_ArchivedNeverActive ==
  \A id \in ModelIds : models[id].status = "archived" => ~models[id].is_active

\* C28: a feedback request authenticated as one user never changes the
\* confidence or the response_pattern of a pattern owned by another user
C28_FeedbackKeepsToOwner ==
  [][(fb.pc = "update" /\ fb'.pc = "done") =>
        \A id \in PatternIds :
           learning_patterns[id].user_id # fb.user =>
              /\ learning_patterns'[id].confidence = learning_patterns[id].confidence
              /\ learning_patterns'[id].response_pattern =
                    learning_patterns[id].response_pattern]_vars

\* C27: no training example is consumed by two jobs: a job created after an
\* earlier job of the same user reached completed is handed none of the rows
\* the earlier job was handed
C27_NoExampleConsumedTwice ==
  [][Len(training_jobs') = Len(training_jobs) + 1 =>
       \A j \in JobIds :
          (/\ training_jobs[j].status = "completed"
           /\ training_jobs[j].user_id = training_jobs'[Len(training_jobs')].user_id) =>
             runs'[Len(runs')].data \cap runs[j].data = {}]_vars

====
